---- MODULE Spec2Model ----
(***************************************************************************)
(* Model of rabbitmq.py: the Zabbix RabbitMQ plugin.                       *)
(*                                                                         *)
(* Every plugin invocation is an operating-system process.  Invocations    *)
(* share one cache blob (/tmp/zabbix_rabbitmq.<sha1>.cache) and one lock   *)
(* file (<blob>.lock).  API.__enter__ runs the get-or-refresh sequence     *)
(* under simpleflock.SimpleFlock(timeout=10); the command handlers         *)
(* doQueues, doGeneral and doHCheck then answer one query.                 *)
(*                                                                         *)
(* Time is kept as ages: the blob carries now - st_mtime and a waiting     *)
(* invocation carries now - start_lock_search, both saturated just past    *)
(* the constant they are compared with.  Two invocations run concurrently  *)
(* and are relaunched for ever (Spec, SpecCalm, FairSpec).                 *)
(*                                                                         *)
(* HandlerSpec follows one invocation at a time on concrete data: the      *)
(* answers of the broker as JSON trees, the queue table getQueueStats      *)
(* builds, the pickle stream in the blob, the parsed command line, the     *)
(* lines printed and the exit status.                                      *)
(***************************************************************************)
EXTENDS Integers, Sequences, FiniteSets, TLC

\* ------------------------------------------------------------------ bounds
MaxVer == 2
Slack == 1
TickStep == 10

\* ------------------------------------------------------- program constants
TTL == 60
LockTimeout == 10

Procs == {1, 2}
Vers == 1..MaxVer
MaxAge == TTL + Slack
MaxWait == LockTimeout + Slack

NoProc == 0
Absent == 0

Min(a, b) == IF a < b THEN a ELSE b

\* ------------------------------------------------------------------- state
VARIABLES
  lock,      \* holder of the flock on <blob>.lock, or NoProc
  blob,      \* the cache file: [exists, data, age]
  remote,    \* the version of the queue list the broker API serves now
  pc,        \* per invocation: position in the script
  cmd,       \* per invocation: the query given on the command line
  payload,   \* per invocation: API.payload
  waited,    \* per invocation: time since start_lock_search while waiting
  failure,   \* per invocation: the exception that ended it, or "none"
  out,       \* per invocation: what it printed, or "none"
  code,      \* per invocation: exit status, or -1 while running
  stale,     \* history: the blob was absent or expired when it was launched
  src,       \* history: where its Payload came from: "none", "cache", "live"
  dirty,     \* history: invocations in whose lock scope the blob was modified
  served,    \* history: invocations holding a Payload of the blob's last write
  calls,     \* history: per invocation, the requests.get calls issued by
             \*   its get-or-refresh (API.__enter__)
  written,   \* history: the Payload of the last completed c.write, while the
             \*   blob still is that write
  \* one invocation followed statement by statement on concrete data
  api,       \* what the broker's three endpoints answer
  argv,      \* the parsed command line (args)
  file,      \* the cache file with its pickle stream: [exists, data, age]
  tree,      \* a.payload as API.__enter__ left it
  stdout,    \* the lines printed
  status,    \* exit status, or -1 while running
  hpc,       \* position in the script, "off" when this view is not followed
  hit,       \* history: API.__enter__ took the c.read() branch
  dumped     \* history: the object handed to the last pickle.dump

hvars == <<api, argv, file, tree, stdout, status, hpc, hit, dumped>>

vars == <<lock, blob, remote, pc, cmd, payload, waited, failure, out, code,
          stale, src, dirty, served, calls, written, hvars>>

\* API.payload: the three sections; Absent marks a key not in the dict
EmptyPayload == [overview |-> Absent, queues |-> Absent, healthcheck |-> Absent]

Complete(pl) ==
  pl.overview # Absent /\ pl.queues # Absent /\ pl.healthcheck # Absent

\* pickle.dump(payload, f): one item per key, closed by the STOP opcode
STOP == <<".", 0>>

PickleDump(pl) ==
  << <<"overview", pl.overview>>, <<"queues", pl.queues>>,
     <<"healthcheck", pl.healthcheck>>, STOP >>

\* pickle.load(f) succeeds only on a stream that reaches its STOP opcode
Loadable(data) == Len(data) > 0 /\ data[Len(data)] = STOP

Item(data, key) ==
  LET hits == {i \in 1..Len(data) : data[i][1] = key}
  IN IF hits = {} THEN Absent ELSE data[CHOOSE i \in hits : TRUE][2]

PickleLoad(data) ==
  [overview |-> Item(data, "overview"), queues |-> Item(data, "queues"),
   healthcheck |-> Item(data, "healthcheck")]

NoBlob == [exists |-> FALSE, data |-> <<>>, age |-> 0]

\* Python's None
None == [kind |-> "None"]

\* mutant: the age comparison of is_valid turned round
IsValidInverted(b) ==
  IF ~b.exists THEN FALSE
  ELSE IF b.age < TTL THEN FALSE
  ELSE TRUE

\* mutant: a blob whose age is exactly ttl counts as expired
IsValidStrict(b) ==
  IF ~b.exists THEN FALSE
  ELSE IF b.age >= TTL THEN FALSE
  ELSE TRUE

\* Cache.is_valid
IsValid(b) ==
  IF ~b.exists THEN FALSE
  ELSE IF b.age > TTL THEN FALSE
  ELSE TRUE

\* doQueues/doGeneral/doHCheck -k and -d use the Payload; doHCheck -n does not
Commands == {"lookup", "nodeHealth"}

\* the state of the concurrent invocations before any of them is launched
InitProcs ==
  /\ lock = NoProc
  /\ blob = NoBlob
  /\ remote = 1
  /\ pc = [p \in Procs |-> "idle"]
  /\ cmd = [p \in Procs |-> "lookup"]
  /\ payload = [p \in Procs |-> EmptyPayload]
  /\ waited = [p \in Procs |-> 0]
  /\ failure = [p \in Procs |-> "none"]
  /\ out = [p \in Procs |-> "none"]
  /\ code = [p \in Procs |-> -1]
  /\ stale = [p \in Procs |-> FALSE]
  /\ src = [p \in Procs |-> "none"]
  /\ dirty = {}
  /\ served = {}
  /\ calls = [p \in Procs |-> 0]
  /\ written = EmptyPayload

\* the single-invocation view is not followed
HandlerOff ==
  /\ api = None
  /\ argv = None
  /\ file = NoBlob
  /\ tree = None
  /\ stdout = <<>>
  /\ status = -1
  /\ hpc = "off"
  /\ hit = FALSE
  /\ dumped = None

Init == InitProcs /\ HandlerOff

\* -------------------------------------------------------------- helpers
Running == {"lock", "valid", "read", "overview", "queues", "healthcheck",
            "w_open", "w_dump", "w_close", "body"}

\* the statements inside the "with simpleflock.SimpleFlock(...)" block
InSequence == {"valid", "read", "overview", "queues", "healthcheck",
               "w_open", "w_dump", "w_close"}

Fetching == {"overview", "queues", "healthcheck"}
Writing == {"w_open", "w_dump", "w_close"}

\* SimpleFlock.__exit__ (and the kernel, when the process dies) drop the flock
Released(p) == IF lock = p THEN NoProc ELSE lock

\* the process is gone: its history marks go with it
Ended(p) ==
  /\ payload' = [payload EXCEPT ![p] = EmptyPayload]
  /\ waited' = [waited EXCEPT ![p] = 0]
  /\ src' = [src EXCEPT ![p] = "none"]
  /\ dirty' = dirty \ {p}
  /\ served' = served \ {p}
  /\ calls' = [calls EXCEPT ![p] = 0]

\* mutant: the exception leaves the scope without dropping the flock
RaiseKeepsLock(p, why) ==
  /\ pc' = [pc EXCEPT ![p] = "failed"]
  /\ failure' = [failure EXCEPT ![p] = why]
  /\ code' = [code EXCEPT ![p] = 1]
  /\ lock' = lock
  /\ Ended(p)

\* an uncaught exception: the traceback, exit status 1, nothing printed
Raise(p, why) ==
  /\ pc' = [pc EXCEPT ![p] = "failed"]
  /\ failure' = [failure EXCEPT ![p] = why]
  /\ code' = [code EXCEPT ![p] = 1]
  /\ lock' = Released(p)
  /\ Ended(p)

\* the blob is modified: noted for every invocation inside the sequence
Touched == dirty \cup {q \in Procs : pc[q] \in InSequence}

\* the io.BufferedWriter hands the first part of the stream to the file
\* when its buffer fills, the rest on close
FlushPoint(s) == Len(s) \div 2

\* ------------------------------------------------------------- actions
\* the agent launches the script: args.func(args) -> "with API(...) as a"
Invoke(p, c) ==
  /\ pc[p] \in {"idle", "done", "failed"}
  /\ pc' = [pc EXCEPT ![p] = "lock"]
  /\ cmd' = [cmd EXCEPT ![p] = c]
  /\ failure' = [failure EXCEPT ![p] = "none"]
  /\ out' = [out EXCEPT ![p] = "none"]
  /\ code' = [code EXCEPT ![p] = -1]
  /\ stale' = [stale EXCEPT ![p] = ~IsValid(blob)]
  /\ UNCHANGED <<lock, blob, remote, payload, waited, src, dirty, served>>
  /\ UNCHANGED <<calls, written, hvars>>

\* mutant: the lock is taken without excluding another holder
AcquireLockShared(p) ==
  /\ pc[p] = "lock"
  /\ lock' = p
  /\ pc' = [pc EXCEPT ![p] = "valid"]
  /\ waited' = [waited EXCEPT ![p] = 0]
  /\ dirty' = dirty \ {p}
  /\ UNCHANGED <<blob, remote, cmd, payload, failure, out, code, stale, src, served>>
  /\ UNCHANGED <<calls, written, hvars>>

\* SimpleFlock.__enter__: flock(LOCK_EX | LOCK_NB) succeeds
AcquireLock(p) ==
  /\ pc[p] = "lock"
  /\ lock = NoProc
  /\ lock' = p
  /\ pc' = [pc EXCEPT ![p] = "valid"]
  /\ waited' = [waited EXCEPT ![p] = 0]
  /\ dirty' = dirty \ {p}
  /\ UNCHANGED <<blob, remote, cmd, payload, failure, out, code, stale, src, served>>
  /\ UNCHANGED <<calls, written, hvars>>

\* mutant: after the timeout the invocation goes on without the lock
LockTimeoutProceeds(p) ==
  /\ pc[p] = "lock"
  /\ lock # NoProc
  /\ waited[p] > LockTimeout
  /\ pc' = [pc EXCEPT ![p] = "valid"]
  /\ waited' = [waited EXCEPT ![p] = 0]
  /\ UNCHANGED <<lock, blob, remote, cmd, payload, failure, out, code,
                 stale, src, dirty, served>>
  /\ UNCHANGED <<calls, written, hvars>>

\* SimpleFlock.__enter__: flock fails with EAGAIN after the timeout: re-raise
LockTimeoutFail(p) ==
  /\ pc[p] = "lock"
  /\ lock # NoProc
  /\ waited[p] > LockTimeout
  /\ Raise(p, "LockTimeout")
  /\ UNCHANGED <<blob, remote, cmd, out, stale>>
  /\ UNCHANGED <<written, hvars>>

\* mutant: the cache is never used, every invocation refreshes
IsValidCheckNeverHits(p) ==
  /\ pc[p] = "valid"
  /\ pc' = [pc EXCEPT ![p] = "overview"]
  /\ UNCHANGED <<lock, blob, remote, cmd, payload, waited, failure, out, code,
                 stale, src, dirty, served>>
  /\ UNCHANGED <<calls, written, hvars>>

\* if c.is_valid(): ... else: ...
IsValidCheck(p) ==
  /\ pc[p] = "valid"
  /\ pc' = [pc EXCEPT ![p] = IF IsValid(blob) THEN "read" ELSE "overview"]
  /\ UNCHANGED <<lock, blob, remote, cmd, payload, waited, failure, out, code,
                 stale, src, dirty, served>>
  /\ UNCHANGED <<calls, written, hvars>>

\* c.is_valid(): os.stat raises OSError (an I/O error reading the timestamp)
StatFail(p) ==
  /\ pc[p] = "valid"
  /\ blob.exists
  /\ Raise(p, "OSError")
  /\ UNCHANGED <<blob, remote, cmd, out, stale>>
  /\ UNCHANGED <<written, hvars>>

\* mutant: reading rewrites the blob's modification time
ReadCacheTouches(p) ==
  /\ pc[p] = "read"
  /\ IF Loadable(blob.data)
     THEN /\ payload' = [payload EXCEPT ![p] = PickleLoad(blob.data)]
          /\ pc' = [pc EXCEPT ![p] = "body"]
          /\ lock' = Released(p)
          /\ src' = [src EXCEPT ![p] = "cache"]
          /\ served' = served \cup {p}
          /\ dirty' = dirty \ {p}
          /\ UNCHANGED <<waited, failure, code, calls>>
     ELSE Raise(p, "CorruptCache")
  /\ blob' = [blob EXCEPT !.age = 0]
  /\ UNCHANGED <<remote, cmd, out, stale>>
  /\ UNCHANGED <<written, hvars>>

\* self.payload = c.read(); pickle.load raises on a stream without STOP
ReadCache(p) ==
  /\ pc[p] = "read"
  /\ IF Loadable(blob.data)
     THEN /\ payload' = [payload EXCEPT ![p] = PickleLoad(blob.data)]
          /\ pc' = [pc EXCEPT ![p] = "body"]
          /\ lock' = Released(p)
          /\ src' = [src EXCEPT ![p] = "cache"]
          /\ served' = served \cup {p}
          /\ dirty' = dirty \ {p}
          /\ UNCHANGED <<waited, failure, code, calls>>
     ELSE Raise(p, "CorruptCache")
  /\ UNCHANGED <<blob, remote, cmd, out, stale>>
  /\ UNCHANGED <<written, hvars>>

\* self.payload['overview'] = self.getOverview()
GetOverview(p) ==
  /\ pc[p] = "overview"
  /\ payload' = [payload EXCEPT ![p].overview = 1]
  /\ pc' = [pc EXCEPT ![p] = "queues"]
  /\ UNCHANGED <<lock, blob, remote, cmd, waited, failure, out, code,
                 stale, src, dirty, served>>
  /\ calls' = [calls EXCEPT ![p] = @ + 1]
  /\ UNCHANGED <<written, hvars>>

\* self.payload['queues'] = self.getQueueStats()
GetQueueStats(p) ==
  /\ pc[p] = "queues"
  /\ payload' = [payload EXCEPT ![p].queues = remote]
  /\ pc' = [pc EXCEPT ![p] = "healthcheck"]
  /\ UNCHANGED <<lock, blob, remote, cmd, waited, failure, out, code,
                 stale, src, dirty, served>>
  /\ calls' = [calls EXCEPT ![p] = @ + 1]
  /\ UNCHANGED <<written, hvars>>

\* self.payload['healthcheck'] = self.getHealthcheck()
GetHealthcheck(p) ==
  /\ pc[p] = "healthcheck"
  /\ payload' = [payload EXCEPT ![p].healthcheck = 1]
  /\ pc' = [pc EXCEPT ![p] = "w_open"]
  /\ UNCHANGED <<lock, blob, remote, cmd, waited, failure, out, code,
                 stale, src, dirty, served>>
  /\ calls' = [calls EXCEPT ![p] = @ + 1]
  /\ UNCHANGED <<written, hvars>>

\* mutant: the failed refresh stores what it has fetched so far
RemoteFailCaches(p) ==
  /\ pc[p] \in Fetching
  /\ blob' = [exists |-> TRUE, data |-> PickleDump(payload[p]), age |-> 0]
  /\ Raise(p, "RemoteUnavailable")
  /\ UNCHANGED <<remote, cmd, out, stale>>
  /\ UNCHANGED <<written, hvars>>

\* requests.get or r.json() raises in one of the three fetches
RemoteFail(p) ==
  /\ pc[p] \in Fetching
  /\ Raise(p, "RemoteUnavailable")
  /\ UNCHANGED <<blob, remote, cmd, out, stale>>
  /\ UNCHANGED <<written, hvars>>

\* c.write: open(self.fileName, 'wb') creates or truncates the blob
WriteOpen(p) ==
  /\ pc[p] = "w_open"
  /\ blob' = [exists |-> TRUE, data |-> <<>>, age |-> 0]
  /\ pc' = [pc EXCEPT ![p] = "w_dump"]
  /\ dirty' = Touched
  /\ served' = {}
  /\ UNCHANGED <<lock, remote, cmd, payload, waited, failure, out, code, stale, src>>
  /\ written' = EmptyPayload
  /\ UNCHANGED <<calls, hvars>>

\* c.write: pickle.dump(payload, f), the buffer's first flush reaches the file
WriteDump(p) ==
  /\ pc[p] = "w_dump"
  /\ LET s == PickleDump(payload[p])
     IN blob' = [exists |-> TRUE, data |-> SubSeq(s, 1, FlushPoint(s)), age |-> 0]
  /\ pc' = [pc EXCEPT ![p] = "w_close"]
  /\ dirty' = Touched
  /\ served' = {}
  /\ UNCHANGED <<lock, remote, cmd, payload, waited, failure, out, code, stale, src>>
  /\ written' = EmptyPayload
  /\ UNCHANGED <<calls, hvars>>

\* c.write: leaving "with open(...)" flushes the rest; then the flock is dropped
WriteClose(p) ==
  /\ pc[p] = "w_close"
  /\ blob' = [exists |-> TRUE, data |-> PickleDump(payload[p]), age |-> 0]
  /\ pc' = [pc EXCEPT ![p] = "body"]
  /\ lock' = Released(p)
  /\ src' = [src EXCEPT ![p] = "live"]
  /\ dirty' = Touched \ {p}
  /\ served' = {p}
  /\ UNCHANGED <<remote, cmd, payload, waited, failure, out, code, stale>>
  /\ written' = payload[p]
  /\ UNCHANGED <<calls, hvars>>

\* c.write: open, write or flush raises OSError (no space, no permission)
WriteFail(p) ==
  /\ pc[p] \in Writing
  /\ Raise(p, "IOError")
  /\ UNCHANGED <<blob, remote, cmd, out, stale>>
  /\ UNCHANGED <<written, hvars>>

\* doQueues / doGeneral / doHCheck -k, -d: print the answer and sys.exit;
\* API.__exit__ sets payload to None
Answer(p) ==
  /\ pc[p] = "body"
  /\ cmd[p] = "lookup"
  /\ \E found \in BOOLEAN :
       /\ out' = [out EXCEPT ![p] = IF found THEN "value" ELSE "Unknown"]
       /\ code' = [code EXCEPT ![p] = IF found THEN 0 ELSE 1]
  /\ pc' = [pc EXCEPT ![p] = "done"]
  /\ Ended(p)
  /\ UNCHANGED <<lock, blob, remote, cmd, failure, stale>>
  /\ UNCHANGED <<written, hvars>>

\* doHCheck -n: print(a.getNodeHealth(args.nodeName)); sys.exit(0)
GetNodeHealth(p) ==
  /\ pc[p] = "body"
  /\ cmd[p] = "nodeHealth"
  /\ out' = [out EXCEPT ![p] = "status"]
  /\ code' = [code EXCEPT ![p] = 0]
  /\ pc' = [pc EXCEPT ![p] = "done"]
  /\ Ended(p)
  /\ UNCHANGED <<lock, blob, remote, cmd, failure, stale>>
  /\ UNCHANGED <<written, hvars>>

\* getNodeHealth: requests.get, r.json() or data['status'] raises
NodeHealthFail(p) ==
  /\ pc[p] = "body"
  /\ cmd[p] = "nodeHealth"
  /\ Raise(p, "RemoteUnavailable")
  /\ UNCHANGED <<blob, remote, cmd, out, stale>>
  /\ UNCHANGED <<written, hvars>>

\* the process is killed (agent timeout, SIGKILL): the kernel drops its flock
Kill(p) ==
  /\ pc[p] \in Running
  /\ pc' = [pc EXCEPT ![p] = "failed"]
  /\ failure' = [failure EXCEPT ![p] = "Killed"]
  /\ code' = [code EXCEPT ![p] = 137]
  /\ lock' = Released(p)
  /\ Ended(p)
  /\ UNCHANGED <<blob, remote, cmd, out, stale>>
  /\ UNCHANGED <<written, hvars>>

\* wall-clock time passes: time.time() grows by TickStep
Tick ==
  /\ blob' = IF blob.exists THEN [blob EXCEPT !.age = Min(@ + TickStep, MaxAge)]
             ELSE blob
  /\ waited' = [p \in Procs |->
                  IF pc[p] = "lock" THEN Min(waited[p] + TickStep, MaxWait)
                  ELSE waited[p]]
  /\ UNCHANGED <<lock, remote, pc, cmd, payload, failure, out, code,
                 stale, src, dirty, served>>
  /\ UNCHANGED <<calls, written, hvars>>

\* the broker's queues change: later fetches return other data
RemoteChange ==
  /\ \E v \in Vers \ {remote} : remote' = v
  /\ UNCHANGED <<lock, blob, pc, cmd, payload, waited, failure, out, code,
                 stale, src, dirty, served>>
  /\ UNCHANGED <<calls, written, hvars>>

Next ==
  \/ \E p \in Procs, c \in Commands : Invoke(p, c)
  \/ \E p \in Procs : AcquireLock(p)
  \/ \E p \in Procs : LockTimeoutFail(p)
  \/ \E p \in Procs : IsValidCheck(p)
  \/ \E p \in Procs : StatFail(p)
  \/ \E p \in Procs : ReadCache(p)
  \/ \E p \in Procs : GetOverview(p)
  \/ \E p \in Procs : GetQueueStats(p)
  \/ \E p \in Procs : GetHealthcheck(p)
  \/ \E p \in Procs : RemoteFail(p)
  \/ \E p \in Procs : WriteOpen(p)
  \/ \E p \in Procs : WriteDump(p)
  \/ \E p \in Procs : WriteClose(p)
  \/ \E p \in Procs : WriteFail(p)
  \/ \E p \in Procs : Answer(p)
  \/ \E p \in Procs : GetNodeHealth(p)
  \/ \E p \in Procs : NodeHealthFail(p)
  \/ \E p \in Procs : Kill(p)
  \/ Tick
  \/ RemoteChange

Spec == Init /\ [][Next]_vars

\* the same program where the broker always answers, the blob can always be
\* written and no process is killed
NextCalm ==
  \/ \E p \in Procs, c \in Commands : Invoke(p, c)
  \/ \E p \in Procs : AcquireLock(p)
  \/ \E p \in Procs : LockTimeoutFail(p)
  \/ \E p \in Procs : IsValidCheck(p)
  \/ \E p \in Procs : ReadCache(p)
  \/ \E p \in Procs : GetOverview(p)
  \/ \E p \in Procs : GetQueueStats(p)
  \/ \E p \in Procs : GetHealthcheck(p)
  \/ \E p \in Procs : WriteOpen(p)
  \/ \E p \in Procs : WriteDump(p)
  \/ \E p \in Procs : WriteClose(p)
  \/ \E p \in Procs : Answer(p)
  \/ \E p \in Procs : GetNodeHealth(p)
  \/ Tick
  \/ RemoteChange

SpecCalm == Init /\ [][NextCalm]_vars

\* time passes, and a waiting invocation goes on polling the flock
\* (SimpleFlock.__enter__: while True: flock ... time.sleep(0.1)); nothing
\* obliges the holder of the lock to go on: a fetch may hang for ever
PollLock(p) == AcquireLock(p) \/ LockTimeoutFail(p)

FairSpec == SpecCalm /\ WF_vars(Tick) /\ \A p \in Procs : WF_vars(PollLock(p))

\* =================================================================
\* One invocation on concrete data: what the handlers print and the status
\* they exit with.  The concurrent view above keeps a Payload as three
\* section versions and an answer as found / not found; here the Payload is
\* the tree the code builds, the blob is its pickle stream, and the command
\* line is the one argparse hands to args.func.
\* =================================================================

\* the longest queue list the broker returns
MaxRecs == 2

\* a Python str is a sequence of pieces, "." being the separator split sees
Dot == "."
Str(t) == <<t>>

\* Python objects as the json module and pickle see them
PyInt(n) == [kind |-> "int", val |-> n]
PyStr(s) == [kind |-> "str", val |-> s]
PyList(q) == [kind |-> "list", val |-> q]
PyDict(f) == [kind |-> "dict", val |-> f]
EmptyDict == PyDict([k \in {} |-> None])

\* d[k] = v
DictSet(d, k, v) ==
  PyDict([x \in (DOMAIN d.val) \cup {k} |-> IF x = k THEN v ELSE d.val[x]])

\* obj[key] with a str key: the value, KeyError when a dict has no such key,
\* TypeError when obj is no dict (int, str, list and None take no str index)
GetItem(obj, key) ==
  IF obj.kind # "dict" THEN [exc |-> "TypeError", val |-> None]
  ELSE IF key \notin DOMAIN obj.val THEN [exc |-> "KeyError", val |-> None]
  ELSE [exc |-> "none", val |-> obj.val[key]]

\* r = obj[key] evaluated after an earlier subscript r0 of the same
\* expression: an exception raised by r0 is what the expression raises
Then(r0, key) == IF r0.exc # "none" THEN r0 ELSE GetItem(r0.val, key)

\* str.split('.')
RECURSIVE Split(_)
Split(s) ==
  LET dots == {i \in 1..Len(s) : s[i] = Dot}
  IN IF dots = {} THEN <<s>>
     ELSE LET i == CHOOSE j \in dots : \A k \in dots : j <= k
          IN <<SubSeq(s, 1, i - 1)>> \o Split(SubSeq(s, i + 1, Len(s)))

RECURSIVE GroupQueues(_, _, _)

\* mutant: a (vhost, name) pair already in the table keeps its first record
GroupQueuesFirstWins(list, i, data) ==
  IF i > Len(list) THEN data
  ELSE LET queue == list[i]
           vhost == queue.val[Str("vhost")].val
           name == queue.val[Str("name")].val
           d1 == IF vhost \notin DOMAIN data.val
                 THEN DictSet(data, vhost, EmptyDict)
                 ELSE data
           d2 == IF name \in DOMAIN d1.val[vhost].val THEN d1
                 ELSE DictSet(d1, vhost, DictSet(d1.val[vhost], name, queue))
       IN GroupQueues(list, i + 1, d2)

\* API.getQueueStats: the loop over r.json(), from the record at index i on
GroupQueues(list, i, data) ==
  IF i > Len(list) THEN data
  ELSE LET queue == list[i]
           vhost == queue.val[Str("vhost")].val
           name == queue.val[Str("name")].val
           d1 == IF vhost \notin DOMAIN data.val
                 THEN DictSet(data, vhost, EmptyDict)
                 ELSE data
           d2 == DictSet(d1, vhost, DictSet(d1.val[vhost], name, queue))
       IN GroupQueues(list, i + 1, d2)

QueueStats(list) == GroupQueues(list, 1, EmptyDict)

\* ---- pickle: the stream of opcodes pickle.dump emits for an object
MARK == <<"(", 0>>
SETITEMS == <<"u", 0>>
APPENDS == <<"e", 0>>
EMPTY_DICT == <<"}", 0>>
EMPTY_LIST == <<"]", 0>>

\* some enumeration of a finite set, as a sequence
RECURSIVE SeqOf(_)
SeqOf(S) ==
  IF S = {} THEN <<>>
  ELSE LET x == CHOOSE y \in S : TRUE IN <<x>> \o SeqOf(S \ {x})

RECURSIVE Save(_)
RECURSIVE SaveAll(_)
RECURSIVE SaveItems(_, _)

\* mutant: an empty list or dict is pickled as None
SaveEmptyAsNone(obj) ==
  CASE obj.kind = "None" -> << <<"N", 0>> >>
    [] obj.kind = "int" -> << <<"K", obj.val>> >>
    [] obj.kind = "str" -> << <<"X", obj.val>> >>
    [] obj.kind = "list" ->
         IF obj.val = <<>> THEN << <<"N", 0>> >>
         ELSE <<EMPTY_LIST, MARK>> \o SaveAll(obj.val) \o <<APPENDS>>
    [] obj.kind = "dict" ->
         IF DOMAIN obj.val = {} THEN << <<"N", 0>> >>
         ELSE <<EMPTY_DICT, MARK>> \o SaveItems(obj.val, SeqOf(DOMAIN obj.val))
                \o <<SETITEMS>>

\* Pickler.save(obj)
Save(obj) ==
  CASE obj.kind = "None" -> << <<"N", 0>> >>
    [] obj.kind = "int" -> << <<"K", obj.val>> >>
    [] obj.kind = "str" -> << <<"X", obj.val>> >>
    [] obj.kind = "list" ->
         IF obj.val = <<>> THEN <<EMPTY_LIST>>
         ELSE <<EMPTY_LIST, MARK>> \o SaveAll(obj.val) \o <<APPENDS>>
    [] obj.kind = "dict" ->
         IF DOMAIN obj.val = {} THEN <<EMPTY_DICT>>
         ELSE <<EMPTY_DICT, MARK>> \o SaveItems(obj.val, SeqOf(DOMAIN obj.val))
                \o <<SETITEMS>>

\* Pickler._batch_appends
SaveAll(q) == IF q = <<>> THEN <<>> ELSE Save(Head(q)) \o SaveAll(Tail(q))

\* Pickler._batch_setitems
SaveItems(f, keys) ==
  IF keys = <<>> THEN <<>>
  ELSE Save(PyStr(Head(keys))) \o Save(f[Head(keys)]) \o SaveItems(f, Tail(keys))

\* pickle.dump(obj, f)
Dumps(obj) == Save(obj) \o <<STOP>>

\* the markobject load_mark pushes on the unpickler's stack
MarkObject == [kind |-> "mark"]

\* the index of the topmost markobject of the stack
TopMark(stack) ==
  CHOOSE i \in 1..Len(stack) :
    /\ stack[i].kind = "mark"
    /\ \A j \in (i + 1)..Len(stack) : stack[j].kind # "mark"

RECURSIVE SetItems(_, _, _)
\* load_setitems: dict[key] = value for the pairs above the mark
SetItems(d, items, i) ==
  IF i > Len(items) THEN d
  ELSE SetItems(DictSet(d, items[i].val, items[i + 1]), items, i + 2)

RECURSIVE Unpickle(_, _, _)
\* Unpickler.load: one opcode at a time until STOP
Unpickle(data, i, stack) ==
  LET op == data[i]
      n == Len(stack)
      m == TopMark(stack)
      above == SubSeq(stack, m + 1, n)
      below == SubSeq(stack, 1, m - 2)
  IN CASE op[1] = STOP[1] -> stack[n]
       [] op[1] = "N" -> Unpickle(data, i + 1, Append(stack, None))
       [] op[1] = "K" -> Unpickle(data, i + 1, Append(stack, PyInt(op[2])))
       [] op[1] = "X" -> Unpickle(data, i + 1, Append(stack, PyStr(op[2])))
       [] op[1] = EMPTY_LIST[1] ->
            Unpickle(data, i + 1, Append(stack, PyList(<<>>)))
       [] op[1] = EMPTY_DICT[1] ->
            Unpickle(data, i + 1, Append(stack, EmptyDict))
       [] op[1] = MARK[1] -> Unpickle(data, i + 1, Append(stack, MarkObject))
       [] op[1] = APPENDS[1] ->
            Unpickle(data, i + 1,
                     Append(below, PyList(stack[m - 1].val \o above)))
       [] op[1] = SETITEMS[1] ->
            Unpickle(data, i + 1,
                     Append(below, SetItems(stack[m - 1], above, 1)))

\* pickle.load(f)
Loads(data) == Unpickle(data, 1, <<>>)

\* ---- what the handlers do with the Payload
\* a line on standard output: print(obj), print(json.dumps(obj)), print_help
Line(fmt, obj) == [fmt |-> fmt, obj |-> obj]

Unknown == Line("str", PyStr(Str("Unknown")))

\* how a "with API(...) as a" block ends: lines printed and exit status
Exit(lines, rc) == [out |-> lines, status |-> rc]

\* try: print(<r>) / except KeyError: print('Unknown'); sys.exit(1) /
\* else: sys.exit(0).  Any other exception is not caught: the interpreter
\* prints the traceback on standard error and exits with status 1
Outcome(r) ==
  IF r.exc = "none" THEN Exit(<<Line("str", r.val)>>, 0)
  ELSE IF r.exc = "KeyError" THEN Exit(<<Unknown>>, 1)
  ELSE Exit(<<>>, 1)

\* mutant: a two-segment path prints what its first segment selects
ItemLookupFirstSegment(r0, itemKey) ==
  LET keyPath == Split(itemKey)
  IN IF r0.exc # "none" THEN Outcome(r0)
     ELSE IF Len(keyPath) = 1 THEN Outcome(Then(r0, itemKey))
     ELSE IF Len(keyPath) = 2 THEN Outcome(Then(r0, keyPath[1]))
     ELSE Exit(<<Unknown>>, 1)

\* keyPath = args.itemKey.split('.'); the if / elif / else on len(keyPath)
\* with data already looked up (r0)
ItemLookup(r0, itemKey) ==
  LET keyPath == Split(itemKey)
  IN IF r0.exc # "none" THEN Outcome(r0)
     ELSE IF Len(keyPath) = 1 THEN Outcome(Then(r0, itemKey))
     ELSE IF Len(keyPath) = 2
          THEN Outcome(Then(Then(r0, keyPath[1]), keyPath[2]))
     ELSE Exit(<<Unknown>>, 1)

\* doQueues -k: data = a.payload['queues'][args.vhost][args.queue]
QueuesItem(pl, args) ==
  ItemLookup(Then(Then(GetItem(pl, Str("queues")), args.vhost), args.queue),
             args.itemKey)

\* doGeneral -k: data = a.payload['overview']
GeneralItem(pl, args) ==
  ItemLookup(GetItem(pl, Str("overview")), args.itemKey)

\* doHCheck -k: print(a.payload['healthcheck'][args.itemKey])
HCheckItem(pl, args) ==
  Outcome(Then(GetItem(pl, Str("healthcheck")), args.itemKey))

\* the record doQueues -d appends for one queue
QueueTag(vhostName, queueName) ==
  PyDict(Str("{#VHOSTNAME}") :> PyStr(vhostName)
           @@ Str("{#QUEUENAME}") :> PyStr(queueName))

RECURSIVE QueueTags(_, _)
\* doQueues -d: the inner loop, for queueName in a.payload['queues'][vhostName]
QueueTags(vhostName, queueNames) ==
  IF queueNames = <<>> THEN <<>>
  ELSE <<QueueTag(vhostName, Head(queueNames))>>
         \o QueueTags(vhostName, Tail(queueNames))

RECURSIVE VhostTags(_, _)

\* mutant: the outer loop stops after the first vhost
VhostTagsFirstOnly(queues, vhostNames) ==
  IF vhostNames = <<>> THEN <<>>
  ELSE QueueTags(Head(vhostNames),
                 SeqOf(DOMAIN queues.val[Head(vhostNames)].val))

\* doQueues -d: the outer loop, for vhostName in a.payload['queues']
VhostTags(queues, vhostNames) ==
  IF vhostNames = <<>> THEN <<>>
  ELSE QueueTags(Head(vhostNames),
                 SeqOf(DOMAIN queues.val[Head(vhostNames)].val))
         \o VhostTags(queues, Tail(vhostNames))

\* retData = {'data': [...]}
RetData(records) == PyDict(Str("data") :> PyList(records))

\* doQueues -d
QueuesDiscovery(pl) ==
  LET queues == pl.val[Str("queues")]
  IN Exit(<<Line("json",
                 RetData(VhostTags(queues, SeqOf(DOMAIN queues.val))))>>, 0)

RECURSIVE NodeTags(_)
\* doGeneral -d: the loop over the listeners
NodeTags(listeners) ==
  IF listeners = <<>> THEN <<>>
  ELSE LET listener == Head(listeners)
       IN (IF listener.val[Str("protocol")] = PyStr(Str("clustering"))
           THEN <<PyDict(Str("{#NODENAME}") :> listener.val[Str("node")])>>
           ELSE <<>>)
            \o NodeTags(Tail(listeners))

\* doGeneral -d: data = a.payload['overview']['listeners'] is outside any try
GeneralDiscovery(pl) ==
  LET r == Then(GetItem(pl, Str("overview")), Str("listeners"))
  IN IF r.exc # "none" THEN Exit(<<>>, 1)
     ELSE Exit(<<Line("json", RetData(NodeTags(r.val.val)))>>, 0)

\* doHCheck -n: print(a.getNodeHealth(args.nodeName)); sys.exit(0)
HCheckNode(args) == Exit(<<Line("str", api.nodehealth.val[Str("status")])>>, 0)

\* pQueues.print_help() and the like return; line 273 ends the script
HelpExit(sub) == Exit(<<Line("help", PyStr(Str(sub)))>>, 2)

\* an option that was not given (None); the empty string is as false
Unset == <<>>

\* the else branch of API.__enter__: the Payload built from the three answers
Fetch(answers) ==
  LET p1 == DictSet(EmptyDict, Str("overview"), answers.overview)
      p2 == DictSet(p1, Str("queues"), QueueStats(answers.queues.val))
  IN DictSet(p2, Str("healthcheck"), answers.healthcheck)

\* API.__enter__ with nobody else at the lock: the Payload it leaves in
\* a.payload
Payload == IF IsValid(file) THEN Loads(file.data) ELSE Fetch(api)

\* "with API(URL, USER, PASS, args.verbose) as a: <body>": the cache is read
\* or refreshed and written, then the body prints and exits
WithAPI(result) ==
  /\ tree' = Payload
  /\ hit' = IsValid(file)
  /\ IF IsValid(file)
     THEN UNCHANGED <<file, dumped>>
     ELSE /\ file' = [exists |-> TRUE, data |-> Dumps(Payload), age |-> 0]
          /\ dumped' = Payload
  /\ stdout' = result.out
  /\ status' = result.status
  /\ hpc' = "exit"

\* a branch that ends the script without "with API"
Without(result) ==
  /\ stdout' = result.out
  /\ status' = result.status
  /\ hpc' = "exit"
  /\ tree' = None
  /\ hit' = FALSE
  /\ UNCHANGED <<file, dumped>>

\* ---- the handlers
\* doQueues(args)
DoQueues ==
  /\ hpc = "main"
  /\ argv.sub = "queues"
  /\ IF argv.discovery > 0 THEN WithAPI(QueuesDiscovery(Payload))
     ELSE IF argv.itemKey # Unset
          THEN IF argv.vhost = Unset \/ argv.queue = Unset
               THEN Without(Exit(<<Line("str",
                                        PyStr(Str("-v and -q required with -k")))>>,
                                 0))
               ELSE WithAPI(QueuesItem(Payload, argv))
     ELSE Without(HelpExit("queues"))
  /\ UNCHANGED <<api, argv>>
  /\ UNCHANGED <<lock, blob, remote, pc, cmd, payload, waited, failure, out,
                 code, stale, src, dirty, served, calls, written>>

\* doGeneral(args)
DoGeneral ==
  /\ hpc = "main"
  /\ argv.sub = "server"
  /\ IF argv.discovery > 0 THEN WithAPI(GeneralDiscovery(Payload))
     ELSE IF argv.itemKey # Unset THEN WithAPI(GeneralItem(Payload, argv))
     ELSE Without(HelpExit("server"))
  /\ UNCHANGED <<api, argv>>
  /\ UNCHANGED <<lock, blob, remote, pc, cmd, payload, waited, failure, out,
                 code, stale, src, dirty, served, calls, written>>

\* doHCheck(args)
DoHCheck ==
  /\ hpc = "main"
  /\ argv.sub = "healthcheck"
  /\ IF argv.itemKey # Unset THEN WithAPI(HCheckItem(Payload, argv))
     ELSE IF argv.nodeName # Unset THEN WithAPI(HCheckNode(argv))
     ELSE Without(HelpExit("healthcheck"))
  /\ UNCHANGED <<api, argv>>
  /\ UNCHANGED <<lock, blob, remote, pc, cmd, payload, waited, failure, out,
                 code, stale, src, dirty, served, calls, written>>

\* if len(sys.argv) == 1: parser.print_help(); sys.exit(0)
NoArguments ==
  /\ hpc = "main"
  /\ argv.sub = ""
  /\ Without(Exit(<<Line("help", PyStr(Str("")))>>, 0))
  /\ UNCHANGED <<api, argv>>
  /\ UNCHANGED <<lock, blob, remote, pc, cmd, payload, waited, failure, out,
                 code, stale, src, dirty, served, calls, written>>

\* the agent polls the same item again, either while the blob is still
\* within ttl or after it has expired
Relaunch ==
  /\ hpc = "exit"
  /\ hpc' = "main"
  /\ \E age \in {TTL, MaxAge} :
       file' = IF file.exists THEN [file EXCEPT !.age = age] ELSE file
  /\ stdout' = <<>>
  /\ status' = -1
  /\ tree' = None
  /\ hit' = FALSE
  /\ UNCHANGED <<api, argv, dumped>>
  /\ UNCHANGED <<lock, blob, remote, pc, cmd, payload, waited, failure, out,
                 code, stale, src, dirty, served, calls, written>>

\* ---- the inputs
VhostNames == {"/", "v2"}
QueueNames == {"q1", "q2"}

\* one record of GET /api/queues
QueueRec(vhost, name, n) ==
  PyDict(Str("vhost") :> PyStr(Str(vhost))
           @@ Str("name") :> PyStr(Str(name))
           @@ Str("messages") :> PyInt(n)
           @@ Str("message_stats") :> PyDict(Str("ack") :> PyInt(n)))

QueueRecs ==
  {QueueRec(v, q, n) : v \in VhostNames, q \in QueueNames, n \in Vers}

QueueLists == UNION {[1..k -> QueueRecs] : k \in 0..MaxRecs}

\* one entry of the overview's listeners
Listener(protocol, node) ==
  PyDict(Str("protocol") :> PyStr(Str(protocol))
           @@ Str("node") :> PyStr(Str(node)))

\* GET /api/overview
Overview(listeners) ==
  PyDict(Str("node") :> PyStr(Str("rabbit@a"))
           @@ Str("object_totals") :> PyDict(Str("queues") :> PyInt(1))
           @@ Str("listeners") :> PyList(listeners))

Overviews ==
  {EmptyDict, Overview(<<>>),
   Overview(<<Listener("amqp", "rabbit@a"), Listener("clustering", "rabbit@a")>>)}

\* GET /api/healthchecks/node: ok, failed with a reason in words, failed
\* with a reason that is itself a JSON object
HealthOk == PyDict(Str("status") :> PyStr(Str("ok")))

Healthchecks ==
  {HealthOk,
   PyDict(Str("status") :> PyStr(Str("failed"))
            @@ Str("reason") :> PyStr(Str("nodedown"))),
   PyDict(Str("status") :> PyStr(Str("failed"))
            @@ Str("reason") :> PyDict(Str("node") :> PyStr(Str("down"))))}

\* the answers of the four endpoints
Answers(overviews, lists, healthchecks) ==
  [overview : overviews, queues : {PyList(l) : l \in lists},
   healthcheck : healthchecks, nodehealth : {HealthOk}]

\* the -k arguments tried
ItemKeys ==
  {Str("messages"), Str("message_stats"), Str("bogus"),
   <<"message_stats", Dot, "ack">>, <<"message_stats", Dot, "bogus">>,
   <<"bogus", Dot, "deep">>, <<"name", Dot, "x">>,
   <<"message_stats", Dot, "ack", Dot, "x">>,
   Str("node"), <<"object_totals", Dot, "queues">>,
   <<"listeners", Dot, "x">>, Str("status"), <<"status", Dot, "x">>,
   Str("reason"), <<"reason", Dot, "node">>}

Args(sub, discovery, itemKey, vhost, queue, nodeName) ==
  [sub |-> sub, discovery |-> discovery, itemKey |-> itemKey,
   vhost |-> vhost, queue |-> queue, nodeName |-> nodeName]

\* every command line argparse accepts, over the names above
AllArgs ==
  {Args("", 0, Unset, Unset, Unset, Unset)}
    \cup {Args("queues", d, k, v, q, Unset) :
            d \in {0, 1}, k \in {Unset} \cup ItemKeys,
            v \in {Unset, Str("/"), Str("zz")},
            q \in {Unset, Str("q1"), Str("zz")}}
    \cup {Args("server", d, k, Unset, Unset, Unset) :
            d \in {0, 1}, k \in {Unset} \cup ItemKeys}
    \cup {Args("healthcheck", 0, k, Unset, Unset, n) :
            k \in {Unset} \cup ItemKeys, n \in {Unset, Str("rabbit@a")}}

\* a queue discovery and a queue lookup
FewArgs ==
  {Args("queues", 1, Unset, Unset, Unset, Unset),
   Args("queues", 0, Str("messages"), Str("/"), Str("q1"), Unset)}

\* the script is started once, with nothing cached: either any queue list
\* with a discovery or a lookup, or any command line on a few answers
HandlerInit ==
  /\ InitProcs
  /\ hpc = "main"
  /\ file = NoBlob
  /\ tree = None
  /\ stdout = <<>>
  /\ status = -1
  /\ hit = FALSE
  /\ dumped = None
  /\ \/ /\ api \in Answers({Overview(<<>>)}, QueueLists, {HealthOk})
        /\ argv \in FewArgs
     \/ /\ api \in Answers(Overviews, {<<>>, <<QueueRec("/", "q1", 1)>>}, Healthchecks)
        /\ argv \in AllArgs

HandlerNext == DoQueues \/ DoGeneral \/ DoHCheck \/ NoArguments \/ Relaunch

HandlerSpec == HandlerInit /\ [][HandlerNext]_vars

\* ------------------------------------------------------------------ C1
\* C1 as claimed: of the invocations launched on an absent or expired blob,
\* every one ends up with a Payload (none fails), exactly one of them fetches
\* live, and those that hold a Payload hold identical ones.
C1_AllObtainIdentical ==
  /\ \A p \in Procs : stale[p] => pc[p] # "failed"
  /\ \A p, q \in Procs :
       (p # q /\ stale[p] /\ stale[q] /\ pc[p] = "body" /\ pc[q] = "body")
         => /\ payload[p] = payload[q]
            /\ ~(src[p] = "live" /\ src[q] = "live")

\* C1 as amended: at most one invocation at a time is in the live fetch
\* sequence, and only while the blob is absent or older than ttl; the
\* invocations served between one blob write and the next hold Payloads
\* identical to that write, exactly one of them having fetched it live; an
\* invocation that ends with LockTimeout holds no Payload.
C1_OneRefreshPerWindow ==
  /\ Cardinality({p \in Procs : pc[p] \in Fetching \cup Writing}) <= 1
  /\ \A p \in Procs : pc[p] \in Fetching => (~blob.exists \/ blob.age > TTL)
  /\ \A p \in served : /\ pc[p] = "body"
                       /\ Loadable(blob.data)
                       /\ payload[p] = PickleLoad(blob.data)
                       /\ Complete(payload[p])
  /\ Cardinality({p \in served : src[p] = "live"}) <= 1
  /\ \A p \in Procs : failure[p] = "LockTimeout" => payload[p] = EmptyPayload

\* two invocations launched on a stale blob, one refreshed, the other was
\* served from its write, both hold the same Payload
C1_Witness ==
  \E p, q \in Procs :
    /\ stale[p] /\ stale[q]
    /\ {p, q} \subseteq served
    /\ src[p] = "live" /\ src[q] = "cache"
    /\ payload[p] = payload[q]

\* ------------------------------------------------------------------ C2
\* C2: at most one invocation is inside the get-or-refresh sequence, every
\* invocation inside it (validity check, read, the three fetches, the write
\* steps) holds the lock, and the blob is modified inside an invocation's
\* lock scope only by that invocation's own write.
C2_LockDiscipline ==
  /\ Cardinality({p \in Procs : pc[p] \in InSequence}) <= 1
  /\ \A p \in Procs : pc[p] \in InSequence => lock = p
  /\ \A p \in dirty : pc[p] \in {"w_dump", "w_close"}

\* one invocation is in the middle of its write while the other, launched on
\* the same stale blob, waits for the lock
C2_Witness ==
  \E p, q \in Procs :
    /\ pc[p] = "w_dump" /\ p \in dirty
    /\ pc[q] = "lock" /\ stale[q] /\ waited[q] > 0

\* ------------------------------------------------------------------ C3
\* C3: no read of the cache ends on a blob that cannot be deserialized
\* (empty or truncated), and every Payload obtained by reading is, in full,
\* the Payload of the blob's last write.
C3_NoPartialVisibility ==
  \A p \in Procs :
    /\ failure[p] # "CorruptCache"
    /\ (pc[p] = "body" /\ src[p] = "cache") => Complete(payload[p])

\* ------------------------------------------------------------------ C4
\* C4: whenever an invocation is about to read the blob, the blob holds a
\* whole serialized Payload: the states between the steps of a write (file
\* truncated, stream partly emitted) are never there for a read.
C4_WriteAtomic ==
  \A p \in Procs : pc[p] = "read" => Loadable(blob.data)

\* ------------------------------------------------------------------ C5
\* C5: whenever no invocation holds the lock, a blob that exists and is
\* within ttl is a complete Payload of one refresh.
C5_CacheEntryInvariant ==
  (lock = NoProc /\ blob.exists /\ blob.age <= TTL)
    => (Loadable(blob.data) /\ Complete(PickleLoad(blob.data)))

\* ------------------------------------------------------------------ C6
\* C6: an invocation whose read finds a blob that cannot be deserialized
\* does not fail: its next step is the first fetch of a live refresh.
C6_CorruptAbsorbed ==
  [][\A p \in Procs :
       (pc[p] = "read" /\ ~Loadable(blob.data) /\ pc'[p] # "read"
          /\ failure'[p] # "Killed")
         => (pc'[p] = "overview" /\ failure'[p] = "none")]_vars

\* ------------------------------------------------------------------ C7
\* C7: when one of the three refresh fetches fails, the invocation ends as
\* failed with a non-zero status and nothing printed, the blob is the same
\* after the step as before, it was not modified since the invocation took
\* the lock, and the partly built Payload is dropped; a Payload handed to
\* the query, and a blob that deserializes, always has all three sections.
C7_RemoteFailureLeavesCache ==
  /\ [][\A p \in Procs :
          (pc[p] \in Fetching /\ failure'[p] = "RemoteUnavailable")
            => /\ pc'[p] = "failed"
               /\ blob' = blob
               /\ p \notin dirty
               /\ out'[p] = "none"
               /\ code'[p] # 0
               /\ payload'[p] = EmptyPayload]_vars
  /\ [](\A p \in Procs : pc[p] = "body" => Complete(payload[p]))
  /\ [](Loadable(blob.data) => Complete(PickleLoad(blob.data)))

\* the second fetch of a refresh failed while an older, expired blob exists:
\* the invocation ended without output and the old blob is still there
C7_Witness ==
  \E p \in Procs :
    /\ pc[p] = "failed" /\ failure[p] = "RemoteUnavailable" /\ cmd[p] = "lookup"
    /\ out[p] = "none" /\ code[p] = 1
    /\ blob.exists /\ blob.age > TTL /\ Loadable(blob.data)

\* ------------------------------------------------------------------ C8
\* C8: an invocation answering a single-node health query never waits for
\* or holds the cache lock, never is inside the get-or-refresh sequence and
\* never ends with LockTimeout.
C8_NodeHealthBypasses ==
  \A p \in Procs :
    cmd[p] = "nodeHealth"
      => /\ pc[p] \notin InSequence \cup {"lock"}
         /\ lock # p
         /\ failure[p] # "LockTimeout"

\* ------------------------------------------------------------------ C9
\* C9: an invocation ends with LockTimeout only from waiting for a lock that
\* another invocation holds, after more than the timeout (10), and that step
\* changes neither blob nor lock and prints nothing; an invocation enters
\* the sequence only by taking the free lock; and no invocation waits for
\* ever: it either gets the lock or ends with LockTimeout.
C9_LockTimeout ==
  /\ [][\A p \in Procs :
          /\ (failure'[p] = "LockTimeout" /\ failure[p] # "LockTimeout")
               => /\ pc[p] = "lock" /\ pc'[p] = "failed"
                  /\ lock \notin {NoProc, p}
                  /\ waited[p] > LockTimeout
                  /\ blob' = blob /\ lock' = lock
                  /\ out'[p] = "none" /\ code'[p] # 0
          /\ (pc[p] = "lock" /\ pc'[p] \notin {"lock", "failed"})
               => (lock = NoProc /\ lock' = p /\ pc'[p] = "valid")]_vars
  /\ \A p \in Procs : (pc[p] = "lock") ~> (pc[p] \in {"valid", "failed"})

\* an invocation ended with LockTimeout while the other one still holds the
\* lock in the middle of its refresh
C9_Witness ==
  \E p, q \in Procs :
    /\ pc[p] = "failed" /\ failure[p] = "LockTimeout" /\ out[p] = "none"
    /\ q # p /\ lock = q /\ pc[q] \in Fetching

\* ----------------------------------------------------------------- C10
\* C10: the lock is held only by an invocation that is inside the
\* get-or-refresh scope: once an invocation has left it, by a cache hit, a
\* refresh or an error at any step, the lock is free for the next one.
C10_LockReleased ==
  /\ \A p \in Procs : lock = p => pc[p] \in InSequence
  /\ (\A p \in Procs : pc[p] \notin InSequence) => lock = NoProc

\* an invocation's refresh failed while it held the lock, and the other
\* invocation has acquired the lock since
C10_Witness ==
  \E p, q \in Procs :
    /\ pc[p] = "failed" /\ failure[p] = "RemoteUnavailable" /\ cmd[p] = "lookup"
    /\ q # p /\ lock = q /\ pc[q] \in InSequence

\* ----------------------------------------------------------------- C11
\* C11: the validity check answers true exactly when the blob exists and its
\* age (now - st_mtime) is at most ttl: true at age 0 right after a write and
\* at age exactly ttl, false at every greater age and when there is no blob;
\* and a completed write leaves the blob with age 0.
C11_TTLValidity ==
  [][\A p \in Procs :
       /\ (pc[p] = "valid" /\ pc'[p] \notin {"valid", "failed"})
            => /\ pc'[p] \in {"read", "overview"}
               /\ (pc'[p] = "read") <=> (blob.exists /\ blob.age <= TTL)
       /\ (pc[p] = "w_close" /\ pc'[p] = "body")
            => (blob'.exists /\ blob'.age = 0)]_vars

\* the validity check answered true on a blob that is now exactly ttl old
C11_Witness ==
  \E p \in Procs : pc[p] = "read" /\ blob.exists /\ blob.age = TTL

\* ----------------------------------------------------------------- C12
\* C12: while the blob is the write of a successful refresh and is at most
\* ttl old, a validity check sends the invocation to the read, never to a
\* fetch; that read succeeds, and the invocation leaves the read holding
\* exactly the Payload the refresh wrote, having issued no remote call.
C12_CacheHitNoRemoteCalls ==
  /\ [][\A p \in Procs :
          /\ (pc[p] = "valid" /\ written # EmptyPayload /\ blob.age <= TTL
                 /\ pc'[p] \notin {"valid", "failed"})
               => pc'[p] = "read"
          /\ (pc[p] = "read" /\ pc'[p] \notin {"read", "failed"})
               => /\ pc'[p] = "body"
                  /\ written # EmptyPayload
                  /\ payload'[p] = written
                  /\ calls'[p] = 0]_vars
  /\ [](\A p \in Procs :
          (pc[p] = "read" /\ written # EmptyPayload) => Loadable(blob.data))
  /\ [](\A p \in Procs : src[p] = "cache" => calls[p] = 0)

\* an invocation was served from the cache, without any remote call, the
\* Payload a refresh wrote, although the broker has other data by now
C12_Witness ==
  \E p \in Procs :
    /\ pc[p] = "body" /\ src[p] = "cache" /\ calls[p] = 0
    /\ payload[p] = written /\ payload[p].queues # remote

\* ----------------------------------------------------------------- C16
\* C16: the validity check never raises: an invocation at the check goes on
\* to the read or to the first fetch (to the fetch when there is no blob),
\* and never ends there with an exception.
C16_IsValidNeverThrows ==
  [][\A p \in Procs :
       (pc[p] = "valid" /\ pc'[p] # "valid" /\ failure'[p] # "Killed")
         => /\ pc'[p] \in {"read", "overview"}
            /\ ~blob.exists => pc'[p] = "overview"]_vars

\* ----------------------------------------------------------------- C20
\* C20: while an invocation is at the validity check or at the read, no step
\* (its own read included) changes the blob's content or moves its
\* modification time; the blob's age goes back to 0 only in a step of a
\* write; an invocation reaches the read only on a blob at most ttl old, and
\* the Payload it leaves the read with is the one a refresh wrote.
C20_HitReadOnly ==
  [][/\ \A p \in Procs :
          /\ pc[p] \in {"valid", "read"}
               => /\ blob'.exists = blob.exists
                  /\ blob'.data = blob.data
                  /\ blob'.age >= blob.age
          /\ (pc[p] = "valid" /\ pc'[p] = "read")
               => (blob.exists /\ blob.age <= TTL)
          /\ (pc[p] = "read" /\ pc'[p] = "body")
               => (written # EmptyPayload /\ payload'[p] = written /\ blob' = blob)
     /\ (blob'.age < blob.age \/ blob'.data # blob.data)
          => \E w \in Procs : pc[w] \in Writing /\ pc'[w] # pc[w]]_vars

\* two invocations were served the same write from the cache, the second
\* one when the blob was already exactly ttl old
C20_Witness ==
  \E p, q \in Procs :
    /\ p # q /\ {p, q} \subseteq served
    /\ src[p] = "cache" /\ src[q] = "cache"
    /\ blob.age = TTL

\* ----------------------------------------------------------------- C17
\* C17: the queue table built from the list the broker returned has an entry
\* for every (vhost, name) pair of the list, that entry is the last record of
\* the list carrying the pair, and the table has no vhost and no queue that
\* does not occur in the list.
C17_GroupingLastWriteWins ==
  (hpc = "exit" /\ tree # None)
    => LET list == api.queues.val
           table == tree.val[Str("queues")].val
           Vhost(i) == list[i].val[Str("vhost")].val
           Name(i) == list[i].val[Str("name")].val
           Same(i, j) == Vhost(i) = Vhost(j) /\ Name(i) = Name(j)
           Last(i) == CHOOSE j \in i..Len(list) :
                        Same(i, j) /\ \A k \in (j + 1)..Len(list) : ~Same(i, k)
       IN /\ \A i \in 1..Len(list) :
               /\ Vhost(i) \in DOMAIN table
               /\ Name(i) \in DOMAIN table[Vhost(i)].val
               /\ table[Vhost(i)].val[Name(i)] = list[Last(i)]
          /\ \A v \in DOMAIN table :
               /\ \E i \in 1..Len(list) : Vhost(i) = v
               /\ \A q \in DOMAIN table[v].val :
                    \E i \in 1..Len(list) : Vhost(i) = v /\ Name(i) = q

\* the list held two different records of one (vhost, name) pair and the
\* table was built from it
C17_Witness ==
  /\ hpc = "exit" /\ tree # None /\ ~hit
  /\ \E i, j \in 1..Len(api.queues.val) :
       /\ i < j
       /\ api.queues.val[i] # api.queues.val[j]
       /\ api.queues.val[i].val[Str("vhost")] = api.queues.val[j].val[Str("vhost")]
       /\ api.queues.val[i].val[Str("name")] = api.queues.val[j].val[Str("name")]

\* ----------------------------------------------------------------- C18
\* C18: a queue discovery prints one JSON line whose data array has, for
\* every (vhost, queue) pair of the Payload's queue map, a record with
\* exactly the tags {#VHOSTNAME} and {#QUEUENAME} of that pair, no record of
\* a pair that is not in the map and no record twice, and exits with 0.
C18_DiscoveryExact ==
  (hpc = "exit" /\ argv.sub = "queues" /\ argv.discovery > 0)
    => /\ status = 0
       /\ Len(stdout) = 1
       /\ stdout[1].fmt = "json"
       /\ DOMAIN stdout[1].obj.val = {Str("data")}
       /\ LET data == stdout[1].obj.val[Str("data")].val
              queues == tree.val[Str("queues")].val
              TagsOf(v, q) == (Str("{#VHOSTNAME}") :> PyStr(v)
                                 @@ Str("{#QUEUENAME}") :> PyStr(q))
          IN /\ \A v \in DOMAIN queues : \A q \in DOMAIN queues[v].val :
                  \E i \in 1..Len(data) : data[i].val = TagsOf(v, q)
             /\ \A i \in 1..Len(data) :
                  \E v \in DOMAIN queues : \E q \in DOMAIN queues[v].val :
                    data[i].val = TagsOf(v, q)
             /\ \A i, j \in 1..Len(data) : i # j => data[i] # data[j]

\* a discovery answered from a queue map of two vhosts with one queue each
C18_Witness ==
  /\ hpc = "exit" /\ argv.sub = "queues" /\ argv.discovery > 0
  /\ Len(stdout) = 1
  /\ Len(stdout[1].obj.val[Str("data")].val) = 2
  /\ Cardinality(DOMAIN tree.val[Str("queues")].val) = 2

\* ----------------------------------------------------------------- C19
\* C19: the Payload a read returns is equal to the Payload that was handed
\* to the write that produced the blob: after a write, loading the blob
\* gives the Payload written, and an invocation served from the cache holds
\* the Payload the last write was given.
C19_RoundTrip ==
  /\ (hpc = "exit" /\ tree # None /\ ~hit)
       => (file.exists /\ Loadable(file.data) /\ Loads(file.data) = tree)
  /\ (hpc = "exit" /\ hit) => (tree = dumped /\ tree # None)

\* an invocation was served from the cache a Payload with an empty queue map
\* and an empty listener list
C19_Witness ==
  /\ hpc = "exit" /\ hit /\ tree = dumped
  /\ tree.val[Str("queues")] = EmptyDict
  /\ tree.val[Str("overview")] # EmptyDict
  /\ tree.val[Str("overview")].val[Str("listeners")] = PyList(<<>>)

\* ------------------------------------------------- C13, C14, C15: terms
\* the command line asks for one scalar: a queue key with vhost and queue,
\* an overview key, a healthcheck key
ScalarLookup ==
  \/ /\ argv.sub = "queues" /\ argv.discovery = 0 /\ argv.itemKey # Unset
     /\ argv.vhost # Unset /\ argv.queue # Unset
  \/ argv.sub = "server" /\ argv.discovery = 0 /\ argv.itemKey # Unset
  \/ argv.sub = "healthcheck" /\ argv.itemKey # Unset

\* following a list of segments from a node of the Payload, map by map
RECURSIVE Navigate(_, _)
Navigate(node, segs) ==
  IF segs = <<>> THEN [found |-> TRUE, node |-> node]
  ELSE IF node.kind = "dict" /\ Head(segs) \in DOMAIN node.val
       THEN Navigate(node.val[Head(segs)], Tail(segs))
  ELSE [found |-> FALSE, node |-> None]

\* the lookup's target in the Payload: the queue record selected by vhost
\* and queue name, the overview section, the healthcheck section
LookupTarget ==
  Navigate(tree,
           IF argv.sub = "queues" THEN <<Str("queues"), argv.vhost, argv.queue>>
           ELSE IF argv.sub = "server" THEN <<Str("overview")>>
           ELSE <<Str("healthcheck")>>)

\* the dotted path has one or two segments and every segment resolves
Located ==
  IF LookupTarget.found /\ Len(Split(argv.itemKey)) \in {1, 2}
  THEN Navigate(LookupTarget.node, Split(argv.itemKey))
  ELSE [found |-> FALSE, node |-> None]

\* ----------------------------------------------------------------- C13
\* C13: a scalar lookup of which some segment does not resolve in the
\* Payload (vhost, queue name, first or second path segment, a first segment
\* that selects something that is no map included) prints exactly the line
\* Unknown and exits with status 1.
C13_PathNotFound ==
  (hpc = "exit" /\ ScalarLookup /\ ~Located.found)
    => (stdout = <<Unknown>> /\ status = 1)

C15_ExitCodes ==
  hpc = "exit"
    => /\ (tree # None /\ Len(stdout) = 1 /\ stdout # <<Unknown>>) => status = 0
       /\ stdout = <<Unknown>> => status = 1
       /\ (\/ argv.sub = ""
           \/ /\ argv.sub \in {"queues", "server"}
              /\ argv.discovery = 0 /\ argv.itemKey = Unset
           \/ /\ argv.sub = "healthcheck"
              /\ argv.itemKey = Unset /\ argv.nodeName = Unset
           \/ /\ argv.sub = "queues" /\ argv.discovery = 0
              /\ argv.itemKey # Unset
              /\ (argv.vhost = Unset \/ argv.queue = Unset))
            => status \notin {0, 1}

====
